---- MODULE Spec2Model ----
(***************************************************************************)
(* Model of the zero-shot low-light enhancement pipeline:                  *)
(*   enhancing_script.py       the five reconstruct_* functions, the       *)
(*                             __main__ block and run_inference            *)
(*   bell2014/image_processor.py  the legacy reconstruction                *)
(*                                                                         *)
(* These levels are modelled:                                              *)
(*   - one sample of one pixel, in IEEE-754 binary32 arithmetic as numpy   *)
(*     evaluates it (SpecUnit, SpecPixel);                                 *)
(*   - the array shapes of one reconstruct_* call (SpecShape);             *)
(*   - one scale of multi_scale_retinex (SpecKernel) and one sample of     *)
(*     the legacy brighten_image (SpecBrighten);                           *)
(*   - one run of the script over a directory of pairs (Spec).             *)
(***************************************************************************)
EXTENDS Integers, Sequences, FiniteSets, TLC

VARIABLES
  r, s, bf, call,                  \* one sample: reflectance, shading, brightness_factor, last call
  rshape, sshape, result,          \* one call: (rows, cols) of the two images, its outcome
  capability, clahe_tile_grid_arg, msr_sigmas_arg, batch,   \* the run's environment
  pc, tile_grid, msr_sigmas, dirs, files, idx, imreads, probes, status,
  scale, kernel,                   \* one scale of multi_scale_retinex: its sigma, its kernel size
  v, factor, brightened            \* one sample of brighten_image: input, factor, output

pixel_vars == <<r, s, bf, call>>
shape_vars == <<rshape, sshape, result>>
env_vars   == <<capability, clahe_tile_grid_arg, msr_sigmas_arg, batch>>
run_vars   == <<pc, tile_grid, msr_sigmas, dirs, files, idx, imreads, probes, status>>
vars == <<r, s, bf, call, rshape, sshape, result,
          capability, clahe_tile_grid_arg, msr_sigmas_arg, batch,
          pc, tile_grid, msr_sigmas, dirs, files, idx, imreads, probes, status,
          scale, kernel, v, factor, brightened>>
kernel_vars == <<scale, kernel>>
brighten_vars == <<v, factor, brightened>>

(***************************************************************************)
(* binary32 arithmetic.  A value is m * 2^e with m = 0 or 2^23 <= m < 2^24.*)
(* Every intermediate stays below 2^31.                                    *)
(***************************************************************************)
P12 == 2^12
P22 == 2^22
P23 == 2^23
P24 == 2^24

F32Zero == [m |-> 0, e |-> 0]

RECURSIVE Normalize(_, _)
Normalize(m, e) ==
  IF m = 0 THEN F32Zero
  ELSE IF m < P23 THEN Normalize(2 * m, e - 1)
  ELSE [m |-> m, e |-> e]

\* uint8.astype(np.float32): exact
F32FromInt(n) == Normalize(n, 0)

F255 == F32FromInt(255)

\* round to nearest, ties to even, of a 24-bit mantissa with guard and sticky
RoundNearestEven(m, e, guard, sticky) ==
  IF guard = 1 /\ (sticky \/ m % 2 = 1)
  THEN IF m + 1 = P24 THEN [m |-> P23, e |-> e + 1] ELSE [m |-> m + 1, e |-> e]
  ELSE [m |-> m, e |-> e]

\* n more quotient bits of rem / d by long division: <<quotient, remainder>>
RECURSIVE DivBits(_, _, _, _)
DivBits(rem, d, q, n) ==
  IF n = 0 THEN <<q, rem>>
  ELSE IF 2 * rem >= d THEN DivBits(2 * rem - d, d, 2 * q + 1, n - 1)
  ELSE DivBits(2 * rem, d, 2 * q, n - 1)

\* float32 / float32, correctly rounded (b # 0)
F32Div(a, b) ==
  IF a.m = 0 THEN F32Zero
  ELSE LET qr == DivBits(a.m % b.m, b.m, a.m \div b.m, 25)
           q == qr[1]
           rem == qr[2]
       IN IF q >= 2^25
          THEN RoundNearestEven(q \div 4, a.e - b.e - 23, (q \div 2) % 2,
                                q % 2 = 1 \/ rem # 0)
          ELSE RoundNearestEven(q \div 2, a.e - b.e - 24, q % 2, rem # 0)

\* float32 * float32, correctly rounded; the 48-bit product is hi * 2^24 + lo
F32Mul(a, b) ==
  IF a.m = 0 \/ b.m = 0 THEN F32Zero
  ELSE LET a1 == a.m \div P12
           a0 == a.m % P12
           b1 == b.m \div P12
           b0 == b.m % P12
           mid == a1 * b0 + a0 * b1
           lo_raw == a0 * b0 + (mid % P12) * P12
           lo == lo_raw % P24
           hi == a1 * b1 + (mid \div P12) + (lo_raw \div P24)
       IN IF hi >= P23
          THEN RoundNearestEven(hi, a.e + b.e + 24, lo \div P23, lo % P23 # 0)
          ELSE RoundNearestEven(2 * hi + (lo \div P23), a.e + b.e + 23,
                                (lo \div P22) % 2, lo % P22 # 0)

F32Ge255(x) == x.m # 0 /\ (x.e > -16 \/ (x.e = -16 /\ x.m >= 255 * 2^16))

\* integer part of a non-negative value (all values here are below 2^31)
Trunc(x) ==
  IF x.m = 0 \/ x.e <= -24 THEN 0
  ELSE IF x.e >= 0 THEN x.m * 2^(x.e)
  ELSE x.m \div 2^(0 - x.e)

\* fault: the clamp is left out
NoClip(x) == x

\* np.clip(x, 0, 255) of a non-negative value
np_clip(x) == IF F32Ge255(x) THEN F255 ELSE x

\* fault: the narrowing rounds to the nearest integer instead of dropping the fraction
AsUint8Rounded(x) ==
  LET t == Trunc(x)
      twice == Trunc(F32Mul(x, F32FromInt(2)))
  IN (IF twice - 2 * t >= 1 THEN t + 1 ELSE t) % 256

\* .astype(np.uint8): the fraction is dropped and the integer keeps its low 8 bits
AsUint8(x) == Trunc(x) % 256

\* fault: the exponent is ignored
PowerAlwaysSquare(x, gamma) == F32Mul(x, x)

\* np.power(x, gamma) for the exponents 1.0 (x itself) and 2.0 (x * x)
np_power(x, gamma) == IF gamma = 1 THEN x ELSE F32Mul(x, x)

(***************************************************************************)
(* The reconstruct_* functions on one sample.  r and s are uint8 samples   *)
(* of the loaded images; enhanced_shading is the uint8 sample the shading  *)
(* transform (MSR, structure-aware, CLAHE) returned for that pixel; f is   *)
(* brightness_factor as a float32.                                         *)
(***************************************************************************)
reconstruct_from_components_simple(rr, ss, f) ==
  LET reflectance_float == F32Div(F32FromInt(rr), F255)
      shading_float == F32Div(F32FromInt(ss), F255)
      reconstructed_float == F32Mul(reflectance_float, shading_float)
      brightened_float == F32Mul(reconstructed_float, f)
  IN AsUint8(np_clip(F32Mul(brightened_float, F255)))

reconstruct_with_gamma_correction(rr, ss, gamma, f) ==
  LET shading_float == F32Div(F32FromInt(ss), F255)
      enhanced_shading_float == np_power(shading_float, gamma)
      reflectance_float == F32Div(F32FromInt(rr), F255)
      reconstructed_float == F32Mul(reflectance_float, enhanced_shading_float)
      brightened_float == F32Mul(reconstructed_float, f)
  IN AsUint8(np_clip(F32Mul(brightened_float, F255)))

reconstruct_from_components_structured(rr, enhanced_shading, f) ==
  LET reflectance_float == F32Div(F32FromInt(rr), F255)
      shading_float == F32Div(F32FromInt(enhanced_shading), F255)
      reconstructed_float == F32Mul(reflectance_float, shading_float)
      brightened_float == F32Mul(reconstructed_float, f)
  IN AsUint8(np_clip(F32Mul(brightened_float, F255)))

reconstruct_with_clahe_enhancement(rr, enhanced_shading, f) ==
  LET reflectance_float == F32Div(F32FromInt(rr), F255)
      shading_float == F32Div(F32FromInt(enhanced_shading), F255)
      reconstructed_float == F32Mul(reflectance_float, shading_float)
      brightened_float == F32Mul(reconstructed_float, f)
  IN AsUint8(np_clip(F32Mul(brightened_float, F255)))

reconstruct_with_msr_enhancement(rr, enhanced_shading, f) ==
  LET reflectance_float == F32Div(F32FromInt(rr), F255)
      shading_float == F32Div(F32FromInt(enhanced_shading), F255)
      reconstructed_float == F32Mul(reflectance_float, shading_float)
      brightened_float == F32Mul(reconstructed_float, f)
  IN AsUint8(np_clip(F32Mul(brightened_float, F255)))

\* bell2014/image_processor.py: no brightness factor
reconstruct_from_components_enhance(rr, ss) ==
  LET reflectance_float == F32Div(F32FromInt(rr), F255)
      shading_float == F32Div(F32FromInt(ss), F255)
      reconstructed_float == F32Mul(reflectance_float, shading_float)
  IN AsUint8(np_clip(F32Mul(reconstructed_float, F255)))

(***************************************************************************)
(* One sample: the inputs and the calls.                                   *)
(***************************************************************************)
\* brightness_factor values (argparse type=float, narrowed to float32 by numpy),
\* each with the fraction num/den it stands for: 0, 0.5, 1.0, 1.7, 2.0, 9.0
BrightnessFactors ==
  { [m |-> 0,        e |-> 0,   num |-> 0,  den |-> 1],
    [m |-> P23,      e |-> -24, num |-> 1,  den |-> 2],
    [m |-> P23,      e |-> -23, num |-> 1,  den |-> 1],
    [m |-> 14260634, e |-> -23, num |-> 17, den |-> 10],
    [m |-> P23,      e |-> -22, num |-> 2,  den |-> 1],
    [m |-> 9 * 2^20, e |-> -20, num |-> 9,  den |-> 1] }

One == [m |-> P23, e |-> -23, num |-> 1, den |-> 1]

Uint8 == 0..255

\* the samples SpecPixel draws: every fifth level and the levels next to the ends
Samples == {x \in Uint8 : x % 5 = 0 \/ x \in {1, 2, 128, 254}}

\* levels the shading transforms (MSR, structure-aware, CLAHE) may return for a pixel
EnhancedSamples == {0, 100, 255}

Gammas == {1, 2}

NoCall == [method |-> "none", gamma |-> 0, shading |-> 0, out |-> 0]

NoShapes == <<0, 0>>

NoResult == [method |-> "none", kind |-> "none", shape |-> <<0, 0>>]

ShapeIdle == rshape = NoShapes /\ sshape = NoShapes /\ result = NoResult

EnvIdle ==
  /\ capability = "full"
  /\ clahe_tile_grid_arg = <<>>
  /\ msr_sigmas_arg = <<>>
  /\ batch = <<>>

NoSigma == [num |-> 0, den |-> 1]

KernelIdle == scale = NoSigma /\ kernel = 0

NoFactor == [kind |-> "none", num |-> 0, den |-> 1]

BrightenIdle == v = 0 /\ factor = NoFactor /\ brightened = -1

RunIdle ==
  /\ pc = "idle"
  /\ tile_grid = <<>>
  /\ msr_sigmas = <<>>
  /\ dirs = {}
  /\ files = {}
  /\ idx = 0
  /\ imreads = 0
  /\ probes = 0
  /\ status = "none"

CallSimple ==
  /\ call = NoCall
  /\ call' = [method |-> "simple", gamma |-> 0, shading |-> s,
              out |-> reconstruct_from_components_simple(r, s, bf)]
  /\ UNCHANGED <<r, s, bf, shape_vars, env_vars, run_vars, kernel_vars, brighten_vars>>

CallGamma ==
  /\ call = NoCall
  /\ \E gamma \in Gammas :
       call' = [method |-> "gamma", gamma |-> gamma, shading |-> s,
                out |-> reconstruct_with_gamma_correction(r, s, gamma, bf)]
  /\ UNCHANGED <<r, s, bf, shape_vars, env_vars, run_vars, kernel_vars, brighten_vars>>

CallStructured ==
  /\ call = NoCall
  /\ \E enhanced_shading \in EnhancedSamples :
       call' = [method |-> "structured", gamma |-> 0, shading |-> enhanced_shading,
                out |-> reconstruct_from_components_structured(r, enhanced_shading, bf)]
  /\ UNCHANGED <<r, s, bf, shape_vars, env_vars, run_vars, kernel_vars, brighten_vars>>

CallClahe ==
  /\ call = NoCall
  /\ \E enhanced_shading \in EnhancedSamples :
       call' = [method |-> "clahe", gamma |-> 0, shading |-> enhanced_shading,
                out |-> reconstruct_with_clahe_enhancement(r, enhanced_shading, bf)]
  /\ UNCHANGED <<r, s, bf, shape_vars, env_vars, run_vars, kernel_vars, brighten_vars>>

CallMsr ==
  /\ call = NoCall
  /\ \E enhanced_shading \in EnhancedSamples :
       call' = [method |-> "msr", gamma |-> 0, shading |-> enhanced_shading,
                out |-> reconstruct_with_msr_enhancement(r, enhanced_shading, bf)]
  /\ UNCHANGED <<r, s, bf, shape_vars, env_vars, run_vars, kernel_vars, brighten_vars>>

\* the legacy function takes no brightness factor
CallEnhanceLegacy ==
  /\ call = NoCall
  /\ call' = [method |-> "legacy_enhance", gamma |-> 0, shading |-> s,
              out |-> reconstruct_from_components_enhance(r, s)]
  /\ UNCHANGED <<r, s, bf, shape_vars, env_vars, run_vars, kernel_vars, brighten_vars>>

\* every pair of samples, brightness_factor = 1.0, the two unenhanced reconstructions
InitUnit ==
  /\ r \in Uint8
  /\ s \in Uint8
  /\ bf = One
  /\ call = NoCall
  /\ ShapeIdle /\ EnvIdle /\ RunIdle
  /\ KernelIdle /\ BrightenIdle

NextUnit == CallSimple \/ CallEnhanceLegacy

SpecUnit == InitUnit /\ [][NextUnit]_vars

InitPixel ==
  /\ r \in Samples
  /\ s \in Samples
  /\ bf \in BrightnessFactors
  /\ call = NoCall
  /\ ShapeIdle /\ EnvIdle /\ RunIdle
  /\ KernelIdle /\ BrightenIdle

NextPixel ==
  \/ CallSimple
  \/ CallGamma
  \/ CallStructured
  \/ CallClahe
  \/ CallMsr
  \/ CallEnhanceLegacy

SpecPixel == InitPixel /\ [][NextPixel]_vars

Abs(x) == IF x < 0 THEN 0 - x ELSE x

Min(a, b) == IF a < b THEN a ELSE b

\* the level the exact product r * s' * brightness_factor / 255 truncates to, clamped
\* to 255 (for the gamma call with exponent 2 the processed shading is s * s / 255)
ExactLevel(c) ==
  LET f == IF c.method = "legacy_enhance" THEN One ELSE bf
  IN IF c.method = "gamma" /\ c.gamma = 2
     THEN Min(255, (r * c.shading * c.shading * f.num) \div (255 * 255 * f.den))
     ELSE Min(255, (r * c.shading * f.num) \div (255 * f.den))

Unenhanced == call.method \in {"simple", "legacy_enhance"}

\* C1 as stated: with brightness_factor = 1.0 and no enhancement the output sample
\* is round(r * s / 255), the nearest integer.
C1_RoundedProduct ==
  (Unenhanced /\ bf = One) => call.out = (2 * r * s + 255) \div 510

\* C1 amended: with brightness_factor = 1.0 and no enhancement the output sample is
\* floor(r * s / 255): the product is truncated, not rounded.
C1_TruncatedProduct ==
  (Unenhanced /\ bf = One) => call.out = (r * s) \div 255

\* r * s / 255 has a fraction of one half or more, and the output is the floor
C1_Witness ==
  /\ Unenhanced
  /\ bf = One
  /\ (2 * r * s + 255) \div 510 = (r * s) \div 255 + 1
  /\ call.out = (r * s) \div 255

\* C2: for each of the five reconstruction methods every output sample is an
\* integer in 0..255 and is the clamped product: it is within one level of
\* min(255, floor(r * s' * brightness_factor / 255)), so a product above 255
\* saturates at 255 and never wraps around.
C2_OutputClamped ==
  call.method # "none" =>
    /\ call.out \in Uint8
    /\ Abs(call.out - ExactLevel(call)) <= 1

\* a product of 9 * 255 = 2295 levels is saturated to 255
C2_Witness ==
  /\ call.method = "msr"
  /\ r = 255
  /\ call.shading = 255
  /\ bf.num = 9
  /\ call.out = 255

\* C9: reconstruct_with_gamma_correction with gamma = 1.0 yields the sample of
\* reconstruct_from_components_simple with the same brightness_factor, to within
\* one level.
C9_GammaOneIsSimple ==
  (call.method = "gamma" /\ call.gamma = 1) =>
    Abs(call.out - reconstruct_from_components_simple(r, s, bf)) <= 1

\* a gamma = 1.0 call whose output is neither black nor saturated
C9_Witness ==
  /\ call.method = "gamma"
  /\ call.gamma = 1
  /\ bf.num = 17
  /\ call.out > 0
  /\ call.out < 255

(***************************************************************************)
(* One call: the shapes.  reflectance is (rows, cols, 3); the shading, as   *)
(* loaded or as returned by a transform of the same shape, is indexed       *)
(* [..., np.newaxis] to (rows', cols', 1) and multiplied elementwise.       *)
(***************************************************************************)
MaxDim == 3

Methods == {"msr", "structured", "gamma", "clahe", "simple"}

Max(a, b) == IF a > b THEN a ELSE b

\* numpy's rule for one axis: the lengths are equal or one of them is 1
AxisCompatible(a, b) == a = b \/ a = 1 \/ b = 1

\* reflectance_float * shading_broadcastable: the product's (rows, cols), or the
\* ValueError numpy raises ("operands could not be broadcast together")
np_multiply_shape(rs, ss) ==
  IF AxisCompatible(rs[1], ss[1]) /\ AxisCompatible(rs[2], ss[2])
  THEN [kind |-> "image", shape |-> <<Max(rs[1], ss[1]), Max(rs[2], ss[2])>>]
  ELSE [kind |-> "ValueError", shape |-> <<0, 0>>]

\* a reconstruct_* call on two loaded images: none of the five compares the shapes
CallReconstruct ==
  /\ result = NoResult
  /\ \E method \in Methods :
       LET product == np_multiply_shape(rshape, sshape)
       IN result' = [method |-> method, kind |-> product.kind, shape |-> product.shape]
  /\ UNCHANGED <<rshape, sshape, pixel_vars, env_vars, run_vars, kernel_vars, brighten_vars>>

InitShape ==
  /\ rshape \in (1..MaxDim) \X (1..MaxDim)
  /\ sshape \in (1..MaxDim) \X (1..MaxDim)
  /\ result = NoResult
  /\ r = 0 /\ s = 0 /\ bf = One /\ call = NoCall
  /\ EnvIdle /\ RunIdle
  /\ KernelIdle /\ BrightenIdle

SpecShape == InitShape /\ [][CallReconstruct]_vars

\* C3: a reconstruct_* call on a reflectance and a shading of different (rows, cols)
\* ends in an input error and produces no image: no broadcast, no unhandled exception.
C3_MismatchIsInputError ==
  (result # NoResult /\ rshape # sshape) => result.kind = "InvalidInputError"

(***************************************************************************)
(* One run of enhancing_script.py: the __main__ block, then run_inference. *)
(***************************************************************************)
MaxPairs == 2

\* a comma-separated token of an option: an integer literal, or text int() rejects
Tok(n) == [int |-> TRUE, val |-> n]

BadTok == [int |-> FALSE, val |-> 0]

\* values of --clahe_tile_grid ("8,8" is the default)
TileGridArgs ==
  { <<Tok(8), Tok(8)>>, <<Tok(8)>>, <<Tok(8), Tok(8), Tok(8)>>,
    <<BadTok, Tok(8)>>, <<Tok(0), Tok(8)>>, <<Tok(8), Tok(-1)>> }

\* values of --msr_sigmas ("15,80,250" is the default)
SigmasArgs ==
  { <<Tok(15), Tok(80), Tok(250)>>, <<Tok(15)>>, <<BadTok>>,
    <<Tok(0)>>, <<Tok(15), Tok(-5)>> }

\* "none": cv2.ximgproc cannot be imported; "module_only": it can, but has no
\* fastGlobalSmootherFilter; "full": the filter is there
Capabilities == {"none", "module_only", "full"}

\* a <base>-r.png the glob finds: whether <base>-s.png exists, whether cv2.imread
\* decodes each file, and the (rows, cols) of each image
PairKinds ==
  { [s_exists |-> TRUE,  r_loads |-> TRUE,  s_loads |-> TRUE,  rshape |-> <<2, 2>>, sshape |-> <<2, 2>>],
    [s_exists |-> FALSE, r_loads |-> TRUE,  s_loads |-> FALSE, rshape |-> <<2, 2>>, sshape |-> <<0, 0>>],
    [s_exists |-> TRUE,  r_loads |-> FALSE, s_loads |-> TRUE,  rshape |-> <<0, 0>>, sshape |-> <<2, 2>>],
    [s_exists |-> TRUE,  r_loads |-> TRUE,  s_loads |-> FALSE, rshape |-> <<2, 2>>, sshape |-> <<0, 0>>],
    [s_exists |-> TRUE,  r_loads |-> TRUE,  s_loads |-> TRUE,  rshape |-> <<2, 2>>, sshape |-> <<1, 2>>],
    [s_exists |-> TRUE,  r_loads |-> TRUE,  s_loads |-> TRUE,  rshape |-> <<2, 2>>, sshape |-> <<3, 2>>] }

Batches == UNION {[1..n -> PairKinds] : n \in 0..MaxPairs}

AllDirs == {"enhanced", "reconstructed", "gamma_enhanced", "clahe_enhanced", "msr_enhanced"}

AllInts(arg) == \A i \in 1..Len(arg) : arg[i].int

\* tile_rows, tile_cols = map(int, arg.split(',')): ValueError on a token int()
\* rejects and on any count of tokens other than two
parse_tile_grid(arg) ==
  IF Len(arg) = 2 /\ AllInts(arg)
  THEN [ok |-> TRUE, val |-> <<arg[1].val, arg[2].val>>]
  ELSE [ok |-> FALSE, val |-> <<>>]

\* list(map(int, arg.split(','))): ValueError on a token int() rejects
parse_msr_sigmas(arg) ==
  IF AllInts(arg)
  THEN [ok |-> TRUE, val |-> [i \in 1..Len(arg) |-> arg[i].val]]
  ELSE [ok |-> FALSE, val |-> <<>>]

\* multi_scale_retinex: the Gaussian kernel size of one scale
k_size(sigma) ==
  LET k == 6 * sigma + 1
  IN IF k % 2 = 0 THEN k + 1 ELSE k

\* cv2.GaussianBlur rejects a kernel size that is not positive
msr_transform_fails(sigmas) == \E i \in 1..Len(sigmas) : k_size(sigmas[i]) <= 0

\* cv2.createCLAHE takes any tileGridSize; apply() divides the image by it
clahe_grid_usable(grid) == grid[1] > 0 /\ grid[2] > 0

Loaded(p) == p.r_loads /\ p.s_loads

\* the outcomes of each reconstruct_* call of the loop on pair p: "None" (an image
\* did not load), "image", "sys.exit" (line 51), or an exception nothing catches
Product(p) == np_multiply_shape(p.rshape, p.sshape).kind

msr_outcomes(p) ==
  IF ~Loaded(p) THEN {"None"}
  ELSE IF msr_transform_fails(msr_sigmas) THEN {"cv2.error"}
  ELSE {Product(p)}

structured_outcomes(p) ==
  IF ~Loaded(p) THEN {"None"}
  ELSE IF capability # "full" THEN {"sys.exit"}
  ELSE {Product(p)}

gamma_outcomes(p) == IF ~Loaded(p) THEN {"None"} ELSE {Product(p)}

\* with a tile count that is not positive the library call has no defined result:
\* it may raise, kill the process, or return
clahe_outcomes(p) ==
  IF ~Loaded(p) THEN {"None"}
  ELSE IF ~clahe_grid_usable(tile_grid) THEN {"cv2.error", Product(p)}
  ELSE {Product(p)}

simple_outcomes(p) == IF ~Loaded(p) THEN {"None"} ELSE {Product(p)}

\* the path each cv2.imwrite of the loop writes: <dir>/<base>_<suffix>.png
msr_save_path(base) == [dir |-> "msr_enhanced", base |-> base, suffix |-> "msr_enhanced"]

enhanced_save_path(base) == [dir |-> "enhanced", base |-> base, suffix |-> "enhanced"]

gamma_save_path(base) == [dir |-> "gamma_enhanced", base |-> base, suffix |-> "gamma_enhanced"]

\* fault: the CLAHE image is saved under the gamma image's path
clahe_save_path_copied(base) == gamma_save_path(base)

clahe_save_path(base) == [dir |-> "clahe_enhanced", base |-> base, suffix |-> "clahe_enhanced"]

reconstructed_save_path(base) == [dir |-> "reconstructed", base |-> base, suffix |-> "reconstructed"]

Init ==
  /\ capability \in Capabilities
  /\ clahe_tile_grid_arg \in TileGridArgs
  /\ msr_sigmas_arg \in SigmasArgs
  /\ batch \in Batches
  /\ pc = "dependency_check"
  /\ tile_grid = <<>>
  /\ msr_sigmas = <<>>
  /\ dirs = {}
  /\ files = {}
  /\ idx = 0
  /\ imreads = 0
  /\ probes = 0
  /\ status = "running"
  /\ r = 0 /\ s = 0 /\ bf = One /\ call = NoCall
  /\ ShapeIdle
  /\ KernelIdle /\ BrightenIdle

Idle == UNCHANGED <<pixel_vars, shape_vars, env_vars, kernel_vars, brighten_vars>>

\* __main__: import cv2.ximgproc, or exit
DependencyCheck ==
  /\ pc = "dependency_check"
  /\ probes' = probes + 1
  /\ IF capability = "none"
     THEN pc' = "exit" /\ status' = "missing_capability"
     ELSE pc' = "parse_tile_grid" /\ status' = status
  /\ UNCHANGED <<tile_grid, msr_sigmas, dirs, files, idx, imreads>>
  /\ Idle

\* __main__: parse --clahe_tile_grid, or exit on ValueError
ParseTileGrid ==
  /\ pc = "parse_tile_grid"
  /\ LET parsed == parse_tile_grid(clahe_tile_grid_arg)
     IN IF parsed.ok
        THEN pc' = "parse_sigmas" /\ tile_grid' = parsed.val /\ status' = status
        ELSE pc' = "exit" /\ tile_grid' = tile_grid /\ status' = "invalid_config"
  /\ UNCHANGED <<msr_sigmas, dirs, files, idx, imreads, probes>>
  /\ Idle

\* __main__: parse --msr_sigmas, or exit on ValueError; then call run_inference
ParseSigmas ==
  /\ pc = "parse_sigmas"
  /\ LET parsed == parse_msr_sigmas(msr_sigmas_arg)
     IN IF parsed.ok
        THEN pc' = "mkdirs" /\ msr_sigmas' = parsed.val /\ status' = status
        ELSE pc' = "exit" /\ msr_sigmas' = msr_sigmas /\ status' = "invalid_config"
  /\ UNCHANGED <<tile_grid, dirs, files, idx, imreads, probes>>
  /\ Idle

\* run_inference: the five mkdir(parents=True, exist_ok=True)
MakeDirs ==
  /\ pc = "mkdirs"
  /\ dirs' = AllDirs
  /\ pc' = "glob"
  /\ UNCHANGED <<tile_grid, msr_sigmas, files, idx, imreads, probes, status>>
  /\ Idle

\* run_inference: glob('*-r.png'); exit when nothing matches
Glob ==
  /\ pc = "glob"
  /\ IF Len(batch) = 0
     THEN pc' = "exit" /\ status' = "no_input" /\ idx' = idx
     ELSE pc' = "loop" /\ status' = status /\ idx' = 1
  /\ UNCHANGED <<tile_grid, msr_sigmas, dirs, files, imreads, probes>>
  /\ Idle

\* the for loop: the shading file of this pair does not exist, continue
LoopSkip ==
  /\ pc = "loop"
  /\ idx <= Len(batch)
  /\ ~batch[idx].s_exists
  /\ idx' = idx + 1
  /\ UNCHANGED <<pc, tile_grid, msr_sigmas, dirs, files, imreads, probes, status>>
  /\ Idle

\* the for loop: the shading file exists, go on to the five reconstructions
LoopEnter ==
  /\ pc = "loop"
  /\ idx <= Len(batch)
  /\ batch[idx].s_exists
  /\ pc' = "msr"
  /\ UNCHANGED <<tile_grid, msr_sigmas, dirs, files, idx, imreads, probes, status>>
  /\ Idle

\* the images the two cv2.imread calls of one reconstruct_* call decode
LoadCount(p) == (IF p.r_loads THEN 1 ELSE 0) + (IF p.s_loads THEN 1 ELSE 0)

\* one reconstruct_* call of the loop body and the imwrite that follows it: the two
\* imread calls, then nothing written (None), the image written, or the run ended
StrategyStep(outcomes, save_path, next_pc, next_idx) ==
  /\ imreads' = imreads + LoadCount(batch[idx])
  /\ \E outcome \in outcomes :
       \/ /\ outcome = "None"
          /\ files' = files /\ pc' = next_pc /\ idx' = next_idx /\ status' = status
       \/ /\ outcome = "image"
          /\ files' = files \cup {save_path}
          /\ pc' = next_pc /\ idx' = next_idx /\ status' = status
       \/ /\ outcome = "sys.exit"
          /\ files' = files /\ pc' = "exit" /\ idx' = idx /\ status' = "missing_capability"
       \/ /\ outcome \in {"ValueError", "cv2.error"}
          /\ files' = files /\ pc' = "crash" /\ idx' = idx /\ status' = outcome
  /\ UNCHANGED <<tile_grid, msr_sigmas, dirs>>
  /\ Idle

StepMsr ==
  /\ pc = "msr"
  /\ StrategyStep(msr_outcomes(batch[idx]), msr_save_path(idx), "structured", idx)
  /\ probes' = probes

\* enhance_shading_map looks the filter up on every call
StepStructured ==
  /\ pc = "structured"
  /\ StrategyStep(structured_outcomes(batch[idx]), enhanced_save_path(idx), "gamma", idx)
  /\ probes' = IF Loaded(batch[idx]) THEN probes + 1 ELSE probes

StepGamma ==
  /\ pc = "gamma"
  /\ StrategyStep(gamma_outcomes(batch[idx]), gamma_save_path(idx), "clahe", idx)
  /\ probes' = probes

StepClahe ==
  /\ pc = "clahe"
  /\ StrategyStep(clahe_outcomes(batch[idx]), clahe_save_path(idx), "simple", idx)
  /\ probes' = probes

StepSimple ==
  /\ pc = "simple"
  /\ StrategyStep(simple_outcomes(batch[idx]), reconstructed_save_path(idx), "loop", idx + 1)
  /\ probes' = probes

\* "--- Inference Complete ---"
Complete ==
  /\ pc = "loop"
  /\ idx > Len(batch)
  /\ pc' = "complete"
  /\ status' = "complete"
  /\ UNCHANGED <<tile_grid, msr_sigmas, dirs, files, idx, imreads, probes>>
  /\ Idle

Next ==
  \/ DependencyCheck
  \/ ParseTileGrid
  \/ ParseSigmas
  \/ MakeDirs
  \/ Glob
  \/ LoopSkip
  \/ LoopEnter
  \/ StepMsr
  \/ StepStructured
  \/ StepGamma
  \/ StepClahe
  \/ StepSimple
  \/ Complete

Spec == Init /\ [][Next]_vars

(***************************************************************************)
(* Properties of the run.                                                  *)
(***************************************************************************)
Pairs == 1..Len(batch)

FilesOf(i) == {f \in files : f.base = i}

\* <d>/<base>_<d>.png for each of the five subdirectories d
FiveVariants(i) ==
  { [dir |-> d, base |-> i, suffix |-> d] :
      d \in {"enhanced", "reconstructed", "gamma_enhanced", "clahe_enhanced", "msr_enhanced"} }

\* the shading file exists and both images decode
PairLoads(i) == batch[i].s_exists /\ Loaded(batch[i])

\* the pair the loop must skip: no shading file, or an image that does not decode
PairUnusable(i) == ~PairLoads(i)

Aborted == pc \in {"exit", "crash"}

LoopStarted == idx >= 1

\* --clahe_tile_grid is not two positive integers, or --msr_sigmas is not a list of
\* positive integers
TileGridArgInvalid ==
  ~(/\ Len(clahe_tile_grid_arg) = 2
    /\ AllInts(clahe_tile_grid_arg)
    /\ \A i \in 1..2 : clahe_tile_grid_arg[i].val > 0)

SigmasArgInvalid ==
  ~(/\ AllInts(msr_sigmas_arg)
    /\ \A i \in 1..Len(msr_sigmas_arg) : msr_sigmas_arg[i].val > 0)

\* C4: a run over a directory with no *-r.png ends in the no-input error with the
\* filesystem unchanged: no output file written and no output directory created.
C4_NoInputWritesNothing ==
  (pc = "exit" /\ status = "no_input") => (dirs = {} /\ files = {})

\* C5: when the edge-preserving smoother is unavailable, the failure is detected
\* before the first image is read and before the first output is written, and the
\* capability is checked once, not per image.
C5_CapabilityCheckedFirst ==
  capability # "full" => (imreads = 0 /\ files = {} /\ probes <= 1)

\* C6: an invalid --clahe_tile_grid or --msr_sigmas ends the run at startup, before
\* any directory is created, any image read or any file written, and no invalid
\* value reaches a per-image transform.
C6_InvalidConfigStopsAtStartup ==
  (TileGridArgInvalid \/ SigmasArgInvalid) =>
    /\ dirs = {} /\ imreads = 0 /\ files = {}
    /\ pc \in {"dependency_check", "parse_tile_grid", "parse_sigmas", "exit"}

\* C7: a pair whose shading file is missing or whose images cannot be loaded is
\* skipped locally: nothing is written for it, and the run, once in its loop, does
\* not abort but goes on over the other pairs to "Inference Complete".
C7_UnusablePairSkippedRunCompletes ==
  \A i \in Pairs :
    PairUnusable(i) =>
      /\ FilesOf(i) = {}
      /\ LoopStarted => ~Aborted

\* C8: when run_inference completes, every pair whose reflectance and shading exist
\* and load has exactly its five files <dir>/<base>_<dir>.png, one per
\* subdirectory; no pair is left with a proper subset of its five; and no file
\* is written for a base name that has no reflectance file.
C8_FiveVariantsPerPair ==
  pc = "complete" =>
    /\ \A i \in Pairs : FilesOf(i) = (IF PairLoads(i) THEN FiveVariants(i) ELSE {})
    /\ \A f \in files : f.base \in Pairs

\* a completed run that wrote the five variants of one pair and skipped another
C8_Witness ==
  /\ pc = "complete"
  /\ \E i \in Pairs : PairLoads(i) /\ Cardinality(FilesOf(i)) = 5
  /\ \E i \in Pairs : ~PairLoads(i)

\* the strategy, evaluated on its own on pair i, returns an image
StrategyYieldsImage(i, method) ==
  LET p == batch[i]
  IN {"image"} = CASE method = "msr" -> msr_outcomes(p)
                   [] method = "structured" -> structured_outcomes(p)
                   [] method = "gamma" -> gamma_outcomes(p)
                   [] method = "clahe" -> clahe_outcomes(p)
                   [] OTHER -> simple_outcomes(p)

SavePath(i, method) ==
  CASE method = "msr" -> msr_save_path(i)
    [] method = "structured" -> enhanced_save_path(i)
    [] method = "gamma" -> gamma_save_path(i)
    [] method = "clahe" -> clahe_save_path(i)
    [] OTHER -> reconstructed_save_path(i)

\* C10: the strategies and the pairs are independent: whatever the order of
\* evaluation, the outputs of a finished run are those each strategy yields on its
\* own, and the failure of one strategy takes away no output of another.
C10_StrategiesIndependent ==
  (LoopStarted /\ pc \in {"complete", "exit", "crash"}) =>
    \A i \in Pairs : \A method \in Methods :
      (batch[i].s_exists /\ StrategyYieldsImage(i, method)) => SavePath(i, method) \in files

(***************************************************************************)
(* One scale of multi_scale_retinex.  sigma is the fraction num/den; the    *)
(* denominators 1 and 4 keep 6 * sigma + 1 exact in floating point.         *)
(***************************************************************************)
MaxSigmaNum == 60

\* fault: an even size is left as it is
k_size_no_odd_bump(num, den) == (6 * num + den) \div den

\* k_size = int(6 * sigma + 1); if k_size % 2 == 0: k_size += 1
\* (int() drops the fraction of a positive value)
k_size_of(num, den) ==
  LET k == (6 * num + den) \div den
  IN IF k % 2 = 0 THEN k + 1 ELSE k

\* the loop body for one sigma: the kernel size handed to cv2.GaussianBlur
RetinexScale ==
  /\ kernel = 0
  /\ kernel' = k_size_of(scale.num, scale.den)
  /\ UNCHANGED <<scale, pixel_vars, shape_vars, env_vars, run_vars, brighten_vars>>

InitKernel ==
  /\ scale \in [num : 1..MaxSigmaNum, den : {1, 4}]
  /\ kernel = 0
  /\ r = 0 /\ s = 0 /\ bf = One /\ call = NoCall
  /\ ShapeIdle /\ EnvIdle /\ RunIdle /\ BrightenIdle

SpecKernel == InitKernel /\ [][RetinexScale]_vars

\* C11 as stated: for every positive sigma the kernel size is the smallest odd
\* integer k with k >= 6 * sigma + 1.
C11_SmallestOddAtLeast ==
  kernel # 0 =>
    /\ kernel % 2 = 1
    /\ kernel * scale.den >= 6 * scale.num + scale.den
    /\ (kernel - 2) * scale.den < 6 * scale.num + scale.den

\* C11 amended: the kernel size is odd and positive and is the smallest odd integer
\* k with k >= floor(6 * sigma + 1); for an integer sigma it is 6 * sigma + 1.
C11_SmallestOddAtLeastFloor ==
  kernel # 0 =>
    LET floor == (6 * scale.num + scale.den) \div scale.den
    IN /\ kernel % 2 = 1
       /\ kernel > 0
       /\ kernel >= floor
       /\ kernel - 2 < floor
       /\ scale.den = 1 => kernel = 6 * scale.num + 1

\* a fractional sigma whose truncated 6 * sigma + 1 is even, so that the size is
\* raised by one (sigma = 0.25: int(2.5) = 2, k = 3)
C11_Witness ==
  /\ kernel # 0
  /\ scale.den = 4
  /\ kernel = (6 * scale.num + scale.den) \div scale.den + 1

(***************************************************************************)
(* One sample of brighten_image (bell2014/image_processor.py).  factor is a *)
(* Python int, or a Python float given as the fraction num/den with den a   *)
(* power of two, so that the floating-point product is exact.               *)
(***************************************************************************)
MaxIntFactor == 130

IntFactors == [kind : {"int"}, num : 0..MaxIntFactor, den : {1}]

\* 0.0, 0.5, 1.5, 2.25, 4.0 (the default) and 200.0
FloatFactors ==
  { [kind |-> "float", num |-> 0, den |-> 1],
    [kind |-> "float", num |-> 1, den |-> 2],
    [kind |-> "float", num |-> 3, den |-> 2],
    [kind |-> "float", num |-> 9, den |-> 4],
    [kind |-> "float", num |-> 4, den |-> 1],
    [kind |-> "float", num |-> 200, den |-> 1] }

\* a 16-bit two's complement integer: numpy's fixed-width arithmetic wraps
Int16(x) == ((x + 2^15) % 2^16) - 2^15

\* np.clip(x, 0, 255) of an integer
clip_int(x) == IF x < 0 THEN 0 ELSE IF x > 255 THEN 255 ELSE x

\* image_16bit = np.int16(image); image_16bit * factor; np.clip(., 0, 255); np.uint8(.)
\* An int16 array times a Python int stays int16; times a Python float it is a
\* floating-point array, which np.uint8 truncates.
brighten_sample(sample, f) ==
  LET image_16bit == Int16(sample)
  IN IF f.kind = "int"
     THEN clip_int(Int16(image_16bit * f.num))
     ELSE IF image_16bit * f.num >= 255 * f.den THEN 255
     ELSE (image_16bit * f.num) \div f.den

BrightenImage ==
  /\ brightened = -1
  /\ brightened' = brighten_sample(v, factor)
  /\ UNCHANGED <<v, factor, pixel_vars, shape_vars, env_vars, run_vars, kernel_vars>>

InitBrighten ==
  /\ v \in Uint8
  /\ factor \in IntFactors \cup FloatFactors
  /\ brightened = -1
  /\ r = 0 /\ s = 0 /\ bf = One /\ call = NoCall
  /\ ShapeIdle /\ EnvIdle /\ RunIdle /\ KernelIdle

SpecBrighten == InitBrighten /\ [][BrightenImage]_vars

\* C12: for every sample v in 0..255 and every factor >= 0, integer or fractional,
\* the widened product does not wrap: the output is min(255, trunc(v * factor)), it
\* lies in 0..255, and a larger factor never gives a darker sample than a smaller one.
C12_WidenedProductExact ==
  brightened # -1 =>
    /\ brightened \in Uint8
    /\ brightened = Min(255, (v * factor.num) \div factor.den)
    /\ (factor.kind = "int" /\ factor.num > 0) =>
         brighten_sample(v, [factor EXCEPT !.num = @ - 1]) <= brightened

====
